---- MODULE Spec2Model ----
(***************************************************************************)
(* A model of ipdetailscache.py: the two-tier cache of IPDetailsCache and  *)
(* its lookup operation GetIPInformation.                                  *)
(*                                                                         *)
(* One call of GetIPInformation is one step.  The clock int(time.time())   *)
(* is the variable now; it is read as one value per call and advances      *)
(* between calls (Tick).  The remote service (urllib2.urlopen of the       *)
(* RIPEstat URL) and the resolver (socket.getfqdn) are inputs of the call, *)
(* drawn from Responses and HostNames.  The address libraries (ipaddr,     *)
(* IPy) are modelled on a small universe of literals: what they parse to,  *)
(* and how they classify the parsed address.  IPAddressObjects and         *)
(* IPPrefixObjects (lines 158-159, 175-176) keep the parsed object of a    *)
(* key; the object is a function of the key, so they are not state here.   *)
(***************************************************************************)
EXTENDS Integers, Sequences, FiniteSets, TLC

(***************************************************************************)
(* Bounds of the model.                                                    *)
(***************************************************************************)
\* the expiration time of the cache entries, in seconds (the MAX_CACHE argument)
MAX_CACHE == 1
\* the number of seconds the clock advances in a behaviour
MaxTicks == 2

\* the clock at construction: late enough for a TS of 0 to be older than MAX_CACHE
Now0 == MAX_CACHE + 1
MaxNow == Now0 + MaxTicks

(***************************************************************************)
(* The universe of address literals and what the address library makes of  *)
(* them: IPWrapper.__init__ parses a literal into an address object, here  *)
(* its version and its groups (octets or 16 bit words).                    *)
(***************************************************************************)
Literals ==
    { "2001:67c:2e8:22::c100:68b", "2001:067c:02e8:0022:0000:0000:c100:068b",
      "2001:67c:2e8:1::1", "10.0.0.1", "::1", "not-an-ip" }

\* one more address of the /64, asked for in StoreSpec and ClientSpec
MoreLiterals == Literals \cup { "2001:67c:2e8:22::1" }

NoObj == [version |-> 0, groups |-> << >>]

IPWrapper(ip) ==
    CASE ip \in {"2001:67c:2e8:22::c100:68b", "2001:067c:02e8:0022:0000:0000:c100:068b"}
              -> [version |-> 6, groups |-> <<8193, 1660, 744, 34, 0, 0, 49408, 1675>>]
      [] ip \in {"2001:67c:2e8:1::1", "2001:067c:02e8:0001:0000:0000:0000:0001"}
              -> [version |-> 6, groups |-> <<8193, 1660, 744, 1, 0, 0, 0, 1>>]
      [] ip \in {"2001:67c:2e8:22::1", "2001:067c:02e8:0022:0000:0000:0000:0001"}
              -> [version |-> 6, groups |-> <<8193, 1660, 744, 34, 0, 0, 0, 1>>]
      [] ip \in {"::1", "0000:0000:0000:0000:0000:0000:0000:0001"}
              -> [version |-> 6, groups |-> <<0, 0, 0, 0, 0, 0, 0, 1>>]
      [] ip = "10.0.0.1"
              -> [version |-> 4, groups |-> <<10, 0, 0, 1>>]
      [] OTHER -> NoObj

\* the literals the library accepts; any other makes IPWrapper raise
ValidLiterals == { s \in MoreLiterals : IPWrapper(s) # NoObj }

get_version(obj) == obj.version

\* the fully expanded text of an address: dotted quad, or eight groups of four digits
ExplodedLiterals ==
    { "2001:067c:02e8:0022:0000:0000:c100:068b",
      "2001:067c:02e8:0001:0000:0000:0000:0001",
      "2001:067c:02e8:0022:0000:0000:0000:0001",
      "0000:0000:0000:0000:0000:0000:0000:0001",
      "10.0.0.1" }

exploded(obj) == CHOOSE s \in ExplodedLiterals : IPWrapper(s) = obj

(***************************************************************************)
(* The classification the libraries give (the properties of ipaddr and     *)
(* iptype() of IPy), and is_globally_routable computed from it.            *)
(***************************************************************************)
Libraries == {"ipaddr", "IPy"}

\* ipaddr: is_private is RFC 1918 for IPv4 and fc00::/7 for IPv6; ::/8 is reserved
ipaddr_flags(obj) ==
    CASE obj.groups = <<10, 0, 0, 1>> ->
             [is_private |-> TRUE, is_reserved |-> FALSE, is_link_local |-> FALSE,
              is_site_local |-> FALSE, is_unspecified |-> FALSE]
      [] obj.groups = <<0, 0, 0, 0, 0, 0, 0, 1>> ->
             [is_private |-> FALSE, is_reserved |-> TRUE, is_link_local |-> FALSE,
              is_site_local |-> FALSE, is_unspecified |-> FALSE]
      [] OTHER ->
             [is_private |-> FALSE, is_reserved |-> FALSE, is_link_local |-> FALSE,
              is_site_local |-> FALSE, is_unspecified |-> FALSE]

\* IPy: iptype() of the address
iptype(obj) ==
    CASE obj.groups = <<10, 0, 0, 1>>             -> "PRIVATE"
      [] obj.groups = <<0, 0, 0, 0, 0, 0, 0, 1>>  -> "LOOPBACK"
      [] OTHER                                    -> "ALLOCATED RIPE NCC"

is_globally_routable(lib, obj) ==
    IF lib = "ipaddr"
    THEN IF get_version(obj) = 4
         THEN ~ipaddr_flags(obj).is_private
         ELSE ~(\/ ipaddr_flags(obj).is_private
                \/ ipaddr_flags(obj).is_reserved
                \/ ipaddr_flags(obj).is_link_local
                \/ ipaddr_flags(obj).is_site_local
                \/ ipaddr_flags(obj).is_unspecified)
    ELSE iptype(obj) \notin {"RESERVED", "UNSPECIFIED", "LOOPBACK", "UNASSIGNED",
                             "DOCUMENTATION", "ULA", "LINKLOCAL"}

(***************************************************************************)
(* Prefixes: NetWrapper.__init__ parses a prefix string into a network, and *)
(* contains compares the leading len bits of the address with the network.  *)
(***************************************************************************)
Prefixes == { "2001:67c:2e8::/48", "2001:67c:2e8:22::/64", "10.0.0.0/8" }

NetWrapper(prefix) ==
    CASE prefix = "2001:67c:2e8::/48" ->
             [version |-> 6, groups |-> <<8193, 1660, 744, 0, 0, 0, 0, 0>>, len |-> 48]
      [] prefix = "2001:67c:2e8:22::/64" ->
             [version |-> 6, groups |-> <<8193, 1660, 744, 34, 0, 0, 0, 0>>, len |-> 64]
      [] OTHER ->
             [version |-> 4, groups |-> <<10, 0, 0, 0>>, len |-> 8]

GroupBits(version) == IF version = 4 THEN 8 ELSE 16

RECURSIVE Pow2(_)
Pow2(n) == IF n = 0 THEN 1 ELSE 2 * Pow2(n - 1)

\* the number of bits of group i (1 based) that a prefix of length len covers
Covered(len, i, w) ==
    IF len >= i * w THEN w
    ELSE IF len <= (i - 1) * w THEN 0
    ELSE len - (i - 1) * w

contains(net, obj) ==
    /\ net.version = obj.version
    /\ \A i \in 1..Len(net.groups) :
          LET w == GroupBits(net.version)
              k == Covered(net.len, i, w)
          IN  net.groups[i] \div Pow2(w - k) = obj.groups[i] \div Pow2(w - k)

(***************************************************************************)
(* The remote service.  urllib2.urlopen(URL).read() either raises (kind     *)
(* "error"), or returns a body that is not JSON (kind "text"), or returns a *)
(* JSON object (kind "json"), whose members may be missing.                 *)
(***************************************************************************)
ASNumbers == {3333, 64500}

\* str() of a number of the service
str(asn) == IF asn = 3333 THEN "3333" ELSE "64500"

\* str.isdigit() on the ASN strings of the model
isdigit(s) == s \in { str(n) : n \in ASNumbers }

\* the address for which every kind of answer of the service is considered
AddrA == "2001:067c:02e8:0022:0000:0000:c100:068b"
\* a second address of the same /48, and a private IPv4 address
AddrB == "2001:067c:02e8:0001:0000:0000:0000:0001"
AddrP == "10.0.0.1"
\* a second address of the same /64, for which the service never answers
AddrC == "2001:067c:02e8:0022:0000:0000:0000:0001"

\* the resources the service names in its answers for an address, and the AS and
\* the holder it gives for each
ResourcesFor(IP) ==
    CASE IP = AddrA -> {"2001:67c:2e8::/48", "2001:67c:2e8:22::/64"}
      [] IP = AddrB -> {"2001:67c:2e8::/48"}
      [] OTHER      -> {"10.0.0.0/8"}

AsnOf(resource) == IF resource = "2001:67c:2e8:22::/64" THEN 64500 ELSE 3333

HolderOf(asn) == IF asn = 3333 THEN "RIPE-NCC-AS" ELSE "EXAMPLE-AS"

Entry(hasAsn, hasHolder, asn) ==
    [hasAsn |-> hasAsn, asn |-> asn, hasHolder |-> hasHolder, holder |-> HolderOf(asn)]

Response(kind, hasStatus, status, hasData, hasAsns, asns, hasResource, resource) ==
    [kind |-> kind, hasStatus |-> hasStatus, status |-> status, hasData |-> hasData,
     hasAsns |-> hasAsns, asns |-> asns, hasResource |-> hasResource,
     resource |-> resource]

\* the answers in which the fetch fails: no answer, no JSON, no status, status not "ok"
FailedResponses ==
    { Response("error", FALSE, "", FALSE, FALSE, << >>, FALSE, ""),
      Response("text", FALSE, "", FALSE, FALSE, << >>, FALSE, ""),
      Response("json", FALSE, "", TRUE, TRUE, << >>, TRUE, "2001:67c:2e8::/48"),
      Response("json", TRUE, "error", FALSE, FALSE, << >>, FALSE, "") }

\* status "ok" with a member missing
MalformedResponses ==
    { Response("json", TRUE, "ok", FALSE, FALSE, << >>, FALSE, ""),
      Response("json", TRUE, "ok", TRUE, FALSE, << >>, TRUE, "2001:67c:2e8::/48"),
      Response("json", TRUE, "ok", TRUE, TRUE, << >>, FALSE, ""),
      Response("json", TRUE, "ok", TRUE, TRUE, <<Entry(TRUE, TRUE, 3333)>>, FALSE, ""),
      Response("json", TRUE, "ok", TRUE, TRUE, <<Entry(FALSE, TRUE, 3333)>>, TRUE,
               "2001:67c:2e8::/48"),
      Response("json", TRUE, "ok", TRUE, TRUE, <<Entry(TRUE, FALSE, 3333)>>, TRUE,
               "2001:67c:2e8::/48") }

\* status "ok" and every member present: an announced resource
Announced(r) ==
    Response("json", TRUE, "ok", TRUE, TRUE, <<Entry(TRUE, TRUE, AsnOf(r))>>, TRUE, r)

\* status "ok" and every member present: a resource that is not announced
NotAnnounced(r) == Response("json", TRUE, "ok", TRUE, TRUE, << >>, TRUE, r)

\* the answers considered for an address: every kind for AddrA; for AddrB the
\* service answers well or not at all, for AddrC not at all, and AddrP it finds
\* not announced
Responses(IP) ==
    CASE IP = AddrA ->
             FailedResponses \cup MalformedResponses
             \cup { Announced(r) : r \in ResourcesFor(IP) }
             \cup { NotAnnounced("2001:67c:2e8::/48") }
      [] IP = AddrB ->
             { r \in FailedResponses : r.kind = "error" }
             \cup { Announced(r) : r \in ResourcesFor(IP) }
      [] IP = AddrC ->
             { r \in FailedResponses : r.kind = "error" }
      [] OTHER ->
             { NotAnnounced(r) : r \in ResourcesFor(IP) }

\* what socket.getfqdn(IP) returns: a name, or the address itself, or nothing
HostNames(IP) ==
    CASE IP = AddrA -> { "www.ripe.net", "" }
      [] IP = AddrB -> { IP }
      [] OTHER      -> { "" }

(***************************************************************************)
(* Records and results.                                                    *)
(***************************************************************************)
NewResult == [TS |-> 0, ASN |-> "", Holder |-> "", Prefix |-> "", HostName |-> ""]

\* lines 191-210: the fetch and the reading of its answer into Result
ReadResponse(resp, Result, t) ==
    IF resp.kind # "json" \/ ~resp.hasStatus
    THEN [raised |-> TRUE, Result |-> Result]
    ELSE IF resp.status # "ok"
    THEN [raised |-> FALSE, Result |-> Result]
    ELSE IF ~resp.hasData \/ ~resp.hasAsns
    THEN [raised |-> TRUE, Result |-> Result]
    ELSE IF resp.asns # << >>
    THEN LET e == resp.asns[1]
             r0 == [Result EXCEPT !.TS = t]
             r1 == [r0 EXCEPT !.ASN = str(e.asn)]
             r2 == [r1 EXCEPT !.Holder = e.holder]
             r3 == [r2 EXCEPT !.Prefix = resp.resource]
         IN  [raised |-> FALSE,
              Result |-> IF ~e.hasAsn THEN [r0 EXCEPT !.ASN = "unknown"]
                         ELSE IF ~e.hasHolder THEN [r1 EXCEPT !.ASN = "unknown"]
                         ELSE IF ~resp.hasResource THEN [r2 EXCEPT !.ASN = "unknown"]
                         ELSE r3]
    ELSE IF ~resp.hasResource
    THEN [raised |-> TRUE, Result |-> Result]
    ELSE [raised |-> FALSE,
          Result |-> [Result EXCEPT !.TS = t, !.ASN = "not announced", !.Holder = "",
                                    !.Prefix = resp.resource]]

\* a variant of WantsHostName: the host name is looked up after every fetch
WantsHostNameAlways(Result) == TRUE

\* line 212: the results for which the host name is looked up
WantsHostName(Result) == isdigit(Result.ASN) \/ Result.ASN = "not announced"

\* lines 213-217
SetHostName(Result, IP, HostName) ==
    [Result EXCEPT !.HostName = IF HostName = IP \/ HostName = "" THEN "unknown"
                                ELSE HostName]

\* a variant of Fresh: a record of age exactly MAX_CACHE is stale
FreshStrict(TS, t) == TS > t - MAX_CACHE

\* variants of Fresh: the comparison reversed, and a window one second too long
FreshReversed(TS, t) == TS <= t - MAX_CACHE

FreshLate(TS, t) == TS >= t - MAX_CACHE - 1

\* lines 166 and 174: the test of a stored TS against the clock t
Fresh(TS, t) == TS >= t - MAX_CACHE

(***************************************************************************)
(* The state: the library in use (chosen at import), the clock, the two    *)
(* caches of the IPDetailsCache object and the iteration order of the      *)
(* prefix cache (a dict: the order is arbitrary, and changes only when a   *)
(* key is added).  last describes the most recent call: the path it took,  *)
(* whether it raised, the outbound calls it made and the Result returned.  *)
(* For one address, watch, the history is kept: lastFetch is the most      *)
(* recent fetch made for it, cachedAt the time its record was last written; *)
(* last holds their values before the call.                                *)
(* The two cache files hold what was last written to them; alive says that *)
(* the object exists (between __init__ and the end of the process), saved  *)
(* that SaveCache has run since __init__, and calls counts the calls of    *)
(* GetIPInformation where they are bounded.                                *)
(***************************************************************************)
VARIABLES ip_library, now, IPAddressesCache, IPPrefixesCache, PrefixOrder,
          last, watch, lastFetch, cachedAt,
          IP_ADDRESSES_CACHE_FILE, IP_PREFIXES_CACHE_FILE, alive, saved, calls

vars == <<ip_library, now, IPAddressesCache, IPPrefixesCache, PrefixOrder,
          last, watch, lastFetch, cachedAt,
          IP_ADDRESSES_CACHE_FILE, IP_PREFIXES_CACHE_FILE, alive, saved, calls>>

files == <<IP_ADDRESSES_CACHE_FILE, IP_PREFIXES_CACHE_FILE>>

\* a file of length zero, as open(file, "w") leaves it
Truncated == [zero |-> TRUE, members |-> {}]

caches == <<IPAddressesCache, IPPrefixesCache, PrefixOrder>>

Never == 0 - 1

NoFetch == [at |-> Never, ok |-> FALSE]

NoResponse == Response("none", FALSE, "", FALSE, FALSE, << >>, FALSE, "")

NoCall ==
    [path |-> "none", in_IP |-> "", IP |-> "", raised |-> FALSE, fetches |-> 0,
     dns |-> 0, Result |-> NewResult, resp |-> NoResponse, prevFetch |-> NoFetch,
     prevCached |-> Never]

\* the addresses the gate of line 161 lets through
Routable(lib) == { a \in ExplodedLiterals : is_globally_routable(lib, IPWrapper(a)) }

\* the object after __init__ with no cache files (lines 258-261, 289-296)
Init ==
    /\ ip_library \in Libraries
    /\ now = Now0
    /\ IPAddressesCache = << >>
    /\ IPPrefixesCache = << >>
    /\ PrefixOrder = << >>
    /\ last = NoCall
    /\ watch \in Routable(ip_library) \cap {AddrA, AddrB}
    /\ lastFetch = NoFetch
    /\ cachedAt = Never
    /\ IP_ADDRESSES_CACHE_FILE = Truncated
    /\ IP_PREFIXES_CACHE_FILE = Truncated
    /\ alive = TRUE
    /\ saved = FALSE
    /\ calls = 0

\* a variant of Put: the entries that are stale are dropped at each write
PutPruning(d, k, v) ==
    [x \in { y \in DOMAIN d : Fresh(d[y].TS, now) } \cup {k} |->
        IF x = k THEN v ELSE d[x]]

\* d[k] = v, on a dict d
Put(d, k, v) == [x \in DOMAIN d \cup {k} |-> IF x = k THEN v ELSE d[x]]

\* the sequence s with x inserted before position i
InsertAt(s, i, x) == SubSeq(s, 1, i - 1) \o <<x>> \o SubSeq(s, i, Len(s))

\* lines 173-178: the positions of PrefixOrder whose entry is fresh and contains obj
FreshMatches(obj, t) ==
    { i \in 1..Len(PrefixOrder) :
        /\ Fresh(IPPrefixesCache[PrefixOrder[i]].TS, t)
        /\ contains(NetWrapper(PrefixOrder[i]), obj) }

\* a variant of FirstMatch: the longest of the fresh containing entries answers
LongestMatch(obj, t) ==
    LET m == FreshMatches(obj, t)
    IN  PrefixOrder[CHOOSE i \in m :
                       \A j \in m : NetWrapper(PrefixOrder[i]).len >=
                                    NetWrapper(PrefixOrder[j]).len]

\* line 184: the entry at which the loop breaks
FirstMatch(obj, t) ==
    LET m == FreshMatches(obj, t)
    IN  PrefixOrder[CHOOSE i \in m : \A j \in m : i <= j]

\* a variant of PrefixSeed: the hit is stamped with the clock
PrefixSeedNow(obj, t) ==
    IF FreshMatches(obj, t) = {}
    THEN NewResult
    ELSE LET p == FirstMatch(obj, t)
         IN  [NewResult EXCEPT !.TS = t,
                               !.ASN = IPPrefixesCache[p].ASN,
                               !.Holder = IPPrefixesCache[p].Holder,
                               !.Prefix = p]

\* a variant of PrefixSeed: the holder of the entry is not copied
PrefixSeedNoHolder(obj, t) ==
    IF FreshMatches(obj, t) = {}
    THEN NewResult
    ELSE LET p == FirstMatch(obj, t)
         IN  [NewResult EXCEPT !.TS = IPPrefixesCache[p].TS,
                               !.ASN = IPPrefixesCache[p].ASN,
                               !.Prefix = p]

\* lines 179-182: Result after the loop
PrefixSeed(obj, t) ==
    IF FreshMatches(obj, t) = {}
    THEN NewResult
    ELSE LET p == FirstMatch(obj, t)
         IN  [NewResult EXCEPT !.TS = IPPrefixesCache[p].TS,
                               !.ASN = IPPrefixesCache[p].ASN,
                               !.Holder = IPPrefixesCache[p].Holder,
                               !.Prefix = p]

\* a variant of AddressHit: a record is served whatever its age
AddressHitAnyAge(IP, t) == IP \in DOMAIN IPAddressesCache

\* lines 165-166: the address cache has a fresh record for IP
AddressHit(IP, t) ==
    /\ IP \in DOMAIN IPAddressesCache
    /\ Fresh(IPAddressesCache[IP].TS, t)

\* a variant of PrefixRecord: the TS of the Result is not written
PrefixRecordNoTS(Result) == [TS |-> 0, ASN |-> Result.ASN, Holder |-> Result.Holder]

\* lines 236-238: the prefix record written from Result
PrefixRecord(Result) == [TS |-> Result.TS, ASN |-> Result.ASN, Holder |-> Result.Holder]

\* a variant of Persist: a prefix entry that exists is not written again
PersistInsertOnly(IP, Result) ==
    /\ IPAddressesCache' = Put(IPAddressesCache, IP, Result)
    /\ cachedAt' = IF IP = watch THEN now ELSE cachedAt
    /\ IF Result.Prefix = "" \/ Result.Prefix \in DOMAIN IPPrefixesCache
       THEN UNCHANGED <<IPPrefixesCache, PrefixOrder>>
       ELSE /\ IPPrefixesCache' = Put(IPPrefixesCache, Result.Prefix, PrefixRecord(Result))
            /\ \E i \in 1..(Len(PrefixOrder) + 1) :
                  PrefixOrder' = InsertAt(PrefixOrder, i, Result.Prefix)

\* a variant of Persist: the prefix cache is not written
PersistAddressOnly(IP, Result) ==
    /\ IPAddressesCache' = Put(IPAddressesCache, IP, Result)
    /\ cachedAt' = IF IP = watch THEN now ELSE cachedAt
    /\ UNCHANGED <<IPPrefixesCache, PrefixOrder>>

\* lines 219-238: the writes of a call that reaches them
Persist(IP, Result) ==
    /\ IPAddressesCache' = Put(IPAddressesCache, IP, Result)
    /\ cachedAt' = IF IP = watch THEN now ELSE cachedAt
    /\ IF Result.Prefix = ""
       THEN UNCHANGED <<IPPrefixesCache, PrefixOrder>>
       ELSE /\ IPPrefixesCache' = Put(IPPrefixesCache, Result.Prefix, PrefixRecord(Result))
            /\ IF Result.Prefix \in DOMAIN IPPrefixesCache
               THEN UNCHANGED PrefixOrder
               ELSE \E i \in 1..(Len(PrefixOrder) + 1) :
                       PrefixOrder' = InsertAt(PrefixOrder, i, Result.Prefix)

\* what last records of a call
Returned(path, in_IP, IP, resp, dns, Result) ==
    [path |-> path, in_IP |-> in_IP, IP |-> IP, raised |-> FALSE,
     fetches |-> IF resp = NoResponse THEN 0 ELSE 1, dns |-> dns, Result |-> Result,
     resp |-> resp,
     prevFetch |-> IF IP = watch THEN lastFetch ELSE NoFetch,
     prevCached |-> IF IP = watch THEN cachedAt ELSE Never]

Raised(path, in_IP, IP, resp) ==
    [Returned(path, in_IP, IP, resp, 0, NewResult) EXCEPT !.raised = TRUE]

\* the history of the fetches: ok when the service answered with status "ok" and
\* the call returned
Fetched(IP, ok) == IF IP = watch THEN [at |-> now, ok |-> ok] ELSE lastFetch

\* a variant of NotRoutable: no gate
NotRoutableNever(obj) == FALSE

\* line 161: the routability gate
NotRoutable(obj) == ~is_globally_routable(ip_library, obj)

GetIPInformation(in_IP) ==
    LET IPObj == IPWrapper(in_IP)
        IP == exploded(IPObj)
        seed == PrefixSeed(IPObj, now)
    IN
    IF in_IP \notin ValidLiterals
    THEN \* line 153: the library raises
         /\ last' = Raised("invalid", in_IP, "", NoResponse)
         /\ UNCHANGED <<caches, lastFetch, cachedAt>>
    ELSE IF NotRoutable(IPObj)
    THEN \* lines 161-163
         /\ last' = Returned("nonroutable", in_IP, IP, NoResponse, 0,
                             [NewResult EXCEPT !.ASN = "unknown"])
         /\ UNCHANGED <<caches, lastFetch, cachedAt>>
    ELSE IF AddressHit(IP, now)
    THEN \* lines 165-169
         /\ last' = Returned("address", in_IP, IP, NoResponse, 0, IPAddressesCache[IP])
         /\ UNCHANGED <<caches, lastFetch, cachedAt>>
    ELSE IF seed.ASN # ""
    THEN \* lines 173-184, then 219-240
         /\ last' = Returned("prefix", in_IP, IP, NoResponse, 0, seed)
         /\ Persist(IP, seed)
         /\ UNCHANGED lastFetch
    ELSE \* lines 186-217, then 219-240
         \E resp \in Responses(IP) :
            LET read == ReadResponse(resp, seed, now)
            IN  IF read.raised
                THEN /\ last' = Raised("fetch", in_IP, IP, resp)
                     /\ lastFetch' = Fetched(IP, FALSE)
                     /\ UNCHANGED <<caches, cachedAt>>
                ELSE /\ lastFetch' = Fetched(IP, resp.status = "ok")
                     /\ IF WantsHostName(read.Result)
                        THEN \E HostName \in HostNames(IP) :
                               LET Result == SetHostName(read.Result, IP, HostName)
                               IN  /\ last' = Returned("fetch", in_IP, IP, resp, 1, Result)
                                   /\ Persist(IP, Result)
                        ELSE /\ last' = Returned("fetch", in_IP, IP, resp, 0, read.Result)
                             /\ Persist(IP, read.Result)

Resolve ==
    /\ \E in_IP \in Literals : GetIPInformation(in_IP)
    /\ UNCHANGED <<ip_library, now, watch, files, alive, saved, calls>>

\* a second passes between two calls
Tick ==
    /\ now < MaxNow
    /\ now' = now + 1
    /\ last' = NoCall
    /\ UNCHANGED <<ip_library, caches, watch, lastFetch, cachedAt>>
    /\ UNCHANGED <<files, alive, saved, calls>>

Next == Resolve \/ Tick

Spec == Init /\ [][Next]_vars

TypeOK ==
    /\ ip_library \in Libraries
    /\ now \in Now0..MaxNow
    /\ DOMAIN IPAddressesCache \subseteq ExplodedLiterals
    /\ DOMAIN IPPrefixesCache \subseteq Prefixes
    /\ Len(PrefixOrder) = Cardinality(DOMAIN IPPrefixesCache)
    /\ { PrefixOrder[i] : i \in 1..Len(PrefixOrder) } = DOMAIN IPPrefixesCache

(***************************************************************************)
(* The store over the life of processes (StoreSpec): the object saves its  *)
(* caches (SaveCache, called by the client or by __del__), the process     *)
(* ends, a new object is constructed from the same two files, and a client *)
(* may write to the Result a call returned to it.  A file is modelled by   *)
(* its length being zero or not and by the members of the JSON object in   *)
(* it; json.load builds a new dict, whose iteration order is arbitrary.    *)
(***************************************************************************)
\* the calls of GetIPInformation considered in ClientSpec and in StoreSpec
MaxCalls == 3
MaxStoreCalls == 2

\* json.dump(d, outfile): the text of the object, one member per key
json_dump(d) == [zero |-> FALSE, members |-> { <<k, d[k]>> : k \in DOMAIN d }]

\* json.load(json_data): the dict of the members of the text
json_load(f) ==
    [k \in { m[1] : m \in f.members } |-> (CHOOSE m \in f.members : m[1] = k)[2]]

\* lines 253-255
_file_not_zero(f) == ~f.zero

\* the orders in which a dict of keys S may iterate
Orders(S) ==
    { o \in [1..Cardinality(S) -> S] : \A i, j \in DOMAIN o : o[i] = o[j] => i = j }

\* lines 242-251
WriteCaches ==
    /\ IP_ADDRESSES_CACHE_FILE' = json_dump(IPAddressesCache)
    /\ IP_PREFIXES_CACHE_FILE' = json_dump(IPPrefixesCache)

\* a variant of Probe: the files are opened for appending and keep their content
ProbeAppend == UNCHANGED files

\* lines 287-297: open(file, "w") on both files
Probe ==
    /\ IP_ADDRESSES_CACHE_FILE' = Truncated
    /\ IP_PREFIXES_CACHE_FILE' = Truncated

\* a variant of Load: the files are read after the write probe
LoadAfterProbe(f) == << >>

\* lines 269-285: the cache read from a file, empty when the file is
Load(f) == IF _file_not_zero(f) THEN json_load(f) ELSE << >>

\* a call of GetIPInformation by a client of the living object, one of at most n
Lookup(n) ==
    /\ alive
    /\ calls < n
    /\ calls' = calls + 1
    /\ \E in_IP \in MoreLiterals : GetIPInformation(in_IP)
    /\ UNCHANGED <<ip_library, now, watch, files, alive, saved>>

\* lines 242-251, called by the client
SaveCache ==
    /\ alive
    /\ WriteCaches
    /\ saved' = TRUE
    /\ last' = NoCall
    /\ UNCHANGED <<ip_library, now, caches, watch, lastFetch, cachedAt, alive, calls>>

\* lines 299-300: the object is finalized as the process ends
__del__ ==
    /\ alive
    /\ WriteCaches
    /\ saved' = TRUE
    /\ alive' = FALSE
    /\ last' = NoCall
    /\ UNCHANGED <<ip_library, now, caches, watch, lastFetch, cachedAt, calls>>

\* the process is killed: no finalizer runs, and the memory is lost
Kill ==
    /\ alive
    /\ alive' = FALSE
    /\ IPAddressesCache' = << >>
    /\ IPPrefixesCache' = << >>
    /\ PrefixOrder' = << >>
    /\ last' = NoCall
    /\ UNCHANGED <<ip_library, now, watch, lastFetch, cachedAt, files, saved, calls>>

\* lines 257-297: a new object on the same two files
__init__ ==
    /\ ~alive
    /\ IPAddressesCache' = Load(IP_ADDRESSES_CACHE_FILE)
    /\ IPPrefixesCache' = Load(IP_PREFIXES_CACHE_FILE)
    /\ PrefixOrder' \in Orders(DOMAIN Load(IP_PREFIXES_CACHE_FILE))
    /\ Probe
    /\ alive' = TRUE
    /\ saved' = FALSE
    /\ last' = NoCall
    /\ lastFetch' = NoFetch
    /\ cachedAt' = Never
    /\ UNCHANGED <<ip_library, now, watch, calls>>

\* the client writes to the dict the last call returned; after line 167 that
\* dict is the record of the cache itself
Annotate ==
    /\ alive
    /\ last.path \in {"address", "prefix", "fetch", "nonroutable"}
    /\ ~last.raised
    /\ last.Result.HostName # "edited"
    /\ last' = [last EXCEPT !.Result.HostName = "edited"]
    /\ IF last.path = "address"
       THEN IPAddressesCache' =
                [IPAddressesCache EXCEPT ![last.IP].HostName = "edited"]
       ELSE UNCHANGED IPAddressesCache
    /\ UNCHANGED <<ip_library, now, IPPrefixesCache, PrefixOrder, watch, lastFetch,
                   cachedAt, files, alive, saved, calls>>

StoreLookup == Lookup(MaxStoreCalls)

StoreNext == StoreLookup \/ Tick \/ SaveCache \/ __del__ \/ Kill \/ __init__

\* processes that start, look addresses up, save and end
StoreSpec == Init /\ [][StoreNext]_vars

ClientLookup == Lookup(MaxCalls)

ClientNext == ClientLookup \/ Tick \/ Annotate

\* one process whose client keeps and edits the results it is given
ClientSpec == Init /\ [][ClientNext]_vars

(***************************************************************************)
(* Properties.  A step that is a call has last'.path different from "none" *)
(* and last' describes that call; in an action formula the unprimed caches *)
(* are the caches the call found.                                          *)
(***************************************************************************)
\* the age of a stored TS
Age(TS) == now - TS

DigitStrings == {"3333", "64500"}

UnknownResult ==
    [TS |-> 0, ASN |-> "unknown", Holder |-> "", Prefix |-> "", HostName |-> ""]

\* the address of the last call is valid and is not globally routable
LastNotRoutable(l) ==
    /\ l.path # "none"
    /\ l.in_IP \in ValidLiterals
    /\ ~is_globally_routable(ip_library, IPWrapper(l.in_IP))

C3_MissAfterTTL ==
    (last.IP = watch /\ last.prevCached # Never /\ now - last.prevCached >= MAX_CACHE)
        => (last.path # "address" /\ last.fetches = 1)

\* C3, amended: once more than MAX_CACHE seconds have passed since the record of an
\* address was written, the next call for it is not answered from the address
\* cache; it makes exactly one fetch when no fresh entry of the prefix cache
\* contains the address, and none when one does.
C3_MissAfterTTLUnlessPrefix ==
    [][(last'.path # "none" /\ last'.IP = watch /\ cachedAt # Never
            /\ now - cachedAt > MAX_CACHE)
         => /\ last'.path # "address"
            /\ last'.fetches =
                 IF \E p \in DOMAIN IPPrefixesCache :
                        /\ Age(IPPrefixesCache[p].TS) <= MAX_CACHE
                        /\ contains(NetWrapper(p), IPWrapper(watch))
                 THEN 0 ELSE 1]_vars

\* a call for an address whose record is older than MAX_CACHE, answered from the
\* prefix cache and so without a fetch
C3_Witness ==
    /\ last.IP = watch
    /\ last.prevCached # Never
    /\ now - last.prevCached > MAX_CACHE
    /\ last.path = "prefix"
    /\ last.fetches = 0

\* the fetch failed: no answer, or an answer whose status is not "ok"
FetchFailed(resp) ==
    \/ resp.kind = "error"
    \/ resp.kind = "json" /\ resp.hasStatus /\ resp.status # "ok"

\* C4: when the fetch fails, by a transport error or by an answer whose status is
\* not "ok", the call raises and writes neither cache.
C4_FailedFetchWritesNothing ==
    [][(last'.fetches = 1 /\ FetchFailed(last'.resp))
         => /\ last'.raised
            /\ IPAddressesCache' = IPAddressesCache
            /\ IPPrefixesCache' = IPPrefixesCache]_vars

\* C5: every record of the address cache and of the prefix cache has a TS
\* different from 0.
C5_StoredTSNotZero ==
    /\ \A a \in DOMAIN IPAddressesCache : IPAddressesCache[a].TS # 0
    /\ \A p \in DOMAIN IPPrefixesCache : IPPrefixesCache[p].TS # 0

\* C6: a call for a globally routable address that has no fresh record in the
\* address cache and is contained in a fresh entry of the prefix cache with a
\* non-empty ASN returns the ASN and the holder of a fresh entry that contains
\* the address, with Prefix the key of that entry, and makes no fetch.  Fresh is
\* the test of the code: an age of at most MAX_CACHE.
C6_PrefixHit ==
    [][\A a \in ExplodedLiterals :
          (/\ last'.path # "none"
           /\ last'.IP = a
           /\ is_globally_routable(ip_library, IPWrapper(a))
           /\ ~(a \in DOMAIN IPAddressesCache
                  /\ Age(IPAddressesCache[a].TS) <= MAX_CACHE)
           /\ \E p \in DOMAIN IPPrefixesCache :
                 /\ Age(IPPrefixesCache[p].TS) <= MAX_CACHE
                 /\ IPPrefixesCache[p].ASN # ""
                 /\ contains(NetWrapper(p), IPWrapper(a)))
          => /\ ~last'.raised
             /\ last'.fetches = 0
             /\ \E p \in DOMAIN IPPrefixesCache :
                   /\ Age(IPPrefixesCache[p].TS) <= MAX_CACHE
                   /\ contains(NetWrapper(p), IPWrapper(a))
                   /\ last'.Result.ASN = IPPrefixesCache[p].ASN
                   /\ last'.Result.Holder = IPPrefixesCache[p].Holder
                   /\ last'.Result.Prefix = p]_vars

\* a call answered from an entry of the prefix cache while the address cache holds
\* a record of the address that is too old
C6_Witness ==
    /\ last.path = "prefix"
    /\ last.IP = watch
    /\ last.prevCached # Never
    /\ last.Result.ASN \in DigitStrings
    /\ last.Result.Prefix \in DOMAIN IPPrefixesCache

\* the answer is a body that cannot be read: no JSON, or a member missing
PayloadMalformed(resp) ==
    \/ resp.kind = "text"
    \/ /\ resp.kind = "json"
       /\ \/ ~resp.hasStatus
          \/ /\ resp.status = "ok"
             /\ \/ ~resp.hasData
                \/ ~resp.hasAsns
                \/ ~resp.hasResource
                \/ resp.asns # << >> /\ (~resp.asns[1].hasAsn \/ ~resp.asns[1].hasHolder)

\* C7: when the body of the answer cannot be read, the call returns a result with
\* ASN "unknown" instead of raising, and that result is stored for the address.
C7_MalformedIsUnknown ==
    (last.fetches = 1 /\ PayloadMalformed(last.resp))
        => /\ ~last.raised
           /\ last.Result.ASN = "unknown"
           /\ last.IP \in DOMAIN IPAddressesCache
           /\ IPAddressesCache[last.IP] = last.Result

\* C8, as claimed: a record is served, from the address cache or from the prefix
\* cache, only while its age is less than MAX_CACHE.
C8_ServedYoungerThanTTL ==
    last.path \in {"address", "prefix"} => Age(last.Result.TS) < MAX_CACHE

\* C8, amended: a record is served, from the address cache or from the prefix
\* cache, only while its age is at most MAX_CACHE; a record whose age is exactly
\* MAX_CACHE is still served.
C8_ServedWithinTTL ==
    last.path \in {"address", "prefix"} => Age(last.Result.TS) <= MAX_CACHE

\* a record served at the age of exactly MAX_CACHE
C8_Witness ==
    /\ last.path = "address"
    /\ Age(last.Result.TS) = MAX_CACHE

\* C9: the reverse lookup is made only for an ASN that is a digit string or "not
\* announced"; a call that returns ASN "unknown" made none; and a call makes at
\* most one fetch and at most one reverse lookup.
C9_HostNameOnlyWhenKnown ==
    /\ last.dns = 1 => (last.Result.ASN \in DigitStrings
                          \/ last.Result.ASN = "not announced")
    /\ last.Result.ASN = "unknown" => last.dns = 0
    /\ last.fetches <= 1
    /\ last.dns <= 1

\* a fetch whose answer was read as "unknown": no reverse lookup was made
C9_Witness ==
    /\ last.fetches = 1
    /\ ~last.raised
    /\ last.Result.ASN = "unknown"
    /\ last.dns = 0

\* C10: for every record of the address cache whose Prefix is not empty, the
\* prefix cache has an entry with that key.
C10_PrefixOfRecordIsCached ==
    \A a \in DOMAIN IPAddressesCache :
        IPAddressesCache[a].Prefix # "" =>
            IPAddressesCache[a].Prefix \in DOMAIN IPPrefixesCache

\* two records with different prefixes, both in the prefix cache
C10_Witness ==
    \E a, b \in DOMAIN IPAddressesCache :
        /\ IPAddressesCache[a].Prefix # ""
        /\ IPAddressesCache[b].Prefix # ""
        /\ IPAddressesCache[a].Prefix # IPAddressesCache[b].Prefix

\* C12: no call removes a key from either cache: the key sets only grow, and
\* an entry, stale or not, stays stored as it is until the call writes its key
\* (the address asked for, the prefix of the Result).
C12_KeysOnlyGrow ==
    [][last'.path # "none" =>
          /\ DOMAIN IPAddressesCache \subseteq DOMAIN IPAddressesCache'
          /\ DOMAIN IPPrefixesCache \subseteq DOMAIN IPPrefixesCache'
          /\ \A a \in DOMAIN IPAddressesCache :
                a # last'.IP => IPAddressesCache'[a] = IPAddressesCache[a]
          /\ \A p \in DOMAIN IPPrefixesCache :
                p # last'.Result.Prefix => IPPrefixesCache'[p] = IPPrefixesCache[p]
    ]_vars

\* a call has written one cache while a stale entry of another key is stored in
\* each cache
C12_Witness ==
    /\ last.path \in {"prefix", "fetch"}
    /\ ~last.raised
    /\ \E a \in DOMAIN IPAddressesCache :
          /\ a # last.IP
          /\ IPAddressesCache[a].TS # 0
          /\ ~Fresh(IPAddressesCache[a].TS, now)
    /\ \E p \in DOMAIN IPPrefixesCache :
          /\ p # last.Result.Prefix
          /\ ~Fresh(IPPrefixesCache[p].TS, now)

\* the answer of the last call is a JSON object with status "ok" whose list of
\* ASNs is empty and which names a resource
NotAnnouncedAnswer(resp) ==
    /\ resp.kind = "json"
    /\ resp.hasStatus /\ resp.status = "ok"
    /\ resp.hasData /\ resp.hasAsns /\ resp.asns = << >>
    /\ resp.hasResource

\* C13: a fetch answered with status "ok" and an empty list of ASNs returns ASN
\* "not announced", Holder "", Prefix the resource of the answer and TS the
\* clock; the record is stored in the address cache and, the Prefix not being
\* empty, in the prefix cache under that resource.
C13_NotAnnounced ==
    (last.fetches = 1 /\ NotAnnouncedAnswer(last.resp)) =>
        /\ ~last.raised
        /\ last.Result.ASN = "not announced"
        /\ last.Result.Holder = ""
        /\ last.Result.Prefix = last.resp.resource
        /\ last.Result.TS = now
        /\ last.IP \in DOMAIN IPAddressesCache
        /\ IPAddressesCache[last.IP] = last.Result
        /\ last.Result.Prefix # "" =>
              /\ last.Result.Prefix \in DOMAIN IPPrefixesCache
              /\ IPPrefixesCache[last.Result.Prefix] =
                     [TS |-> now, ASN |-> "not announced", Holder |-> ""]

\* such a fetch has been made for an address whose older record it replaced
C13_Witness ==
    /\ last.fetches = 1
    /\ NotAnnouncedAnswer(last.resp)
    /\ last.prevCached # Never

\* the address the call of the step asks for is valid and globally routable,
\* and the address cache, before the call, has a record of it no older than
\* MAX_CACHE
FindsFreshRecord(l) ==
    /\ l.path # "none"
    /\ l.in_IP \in ValidLiterals
    /\ is_globally_routable(ip_library, IPWrapper(l.in_IP))
    /\ l.IP \in DOMAIN IPAddressesCache
    /\ Age(IPAddressesCache[l.IP].TS) <= MAX_CACHE

\* the entries of the prefix cache, before the call, that are no older than
\* MAX_CACHE and contain the address
FreshContaining(obj) ==
    { p \in DOMAIN IPPrefixesCache :
        /\ Age(IPPrefixesCache[p].TS) <= MAX_CACHE
        /\ contains(NetWrapper(p), obj) }

\* the call of the step is for a valid, globally routable address of which the
\* address cache has no fresh record, while the prefix cache has a fresh entry
\* that contains it
FindsFreshPrefix(l) ==
    /\ l.path # "none"
    /\ l.in_IP \in ValidLiterals
    /\ is_globally_routable(ip_library, IPWrapper(l.in_IP))
    /\ ~(/\ l.IP \in DOMAIN IPAddressesCache
         /\ Age(IPAddressesCache[l.IP].TS) <= MAX_CACHE)
    /\ FreshContaining(IPWrapper(l.in_IP)) # {}

\* C14: a call answered from a prefix entry P writes exactly one record of the
\* address cache, under the normalized address, with the TS, ASN and Holder of
\* P, Prefix the key of P and HostName "", and returns it; it makes no fetch
\* and no reverse lookup; the TS and ASN of P and every other entry of either
\* cache are as before.
C14_PrefixHitFrame ==
    [][FindsFreshPrefix(last') =>
          \E P \in FreshContaining(IPWrapper(last'.in_IP)) :
             LET record == [TS |-> IPPrefixesCache[P].TS,
                            ASN |-> IPPrefixesCache[P].ASN,
                            Holder |-> IPPrefixesCache[P].Holder,
                            Prefix |-> P,
                            HostName |-> ""]
             IN  /\ ~last'.raised
                 /\ last'.Result = record
                 /\ last'.fetches = 0
                 /\ last'.dns = 0
                 /\ DOMAIN IPAddressesCache' = DOMAIN IPAddressesCache \cup {last'.IP}
                 /\ IPAddressesCache'[last'.IP] = record
                 /\ \A a \in DOMAIN IPAddressesCache :
                       a # last'.IP => IPAddressesCache'[a] = IPAddressesCache[a]
                 /\ DOMAIN IPPrefixesCache' = DOMAIN IPPrefixesCache
                 /\ IPPrefixesCache'[P].TS = IPPrefixesCache[P].TS
                 /\ IPPrefixesCache'[P].ASN = IPPrefixesCache[P].ASN
                 /\ \A q \in DOMAIN IPPrefixesCache :
                       q # P => IPPrefixesCache'[q] = IPPrefixesCache[q]
    ]_vars

\* a prefix hit has replaced an older record of the address, the entry that
\* answered being older than the clock
C14_Witness ==
    /\ last.path = "prefix"
    /\ last.prevCached # Never
    /\ IPAddressesCache[last.IP].HostName = ""
    /\ IPAddressesCache[last.IP].Prefix \in DOMAIN IPPrefixesCache
    /\ IPPrefixesCache[IPAddressesCache[last.IP].Prefix].TS < now

\* C15: a call that finds a fresh record of the address returns the five
\* stored fields, whatever the prefix cache holds, makes no fetch and no
\* reverse lookup, and leaves both caches as they are.
C15_AddressHitFrame ==
    [][FindsFreshRecord(last') =>
          /\ ~last'.raised
          /\ last'.Result = IPAddressesCache[last'.IP]
          /\ DOMAIN last'.Result = {"TS", "ASN", "Holder", "Prefix", "HostName"}
          /\ last'.fetches = 0
          /\ last'.dns = 0
          /\ IPAddressesCache' = IPAddressesCache
          /\ IPPrefixesCache' = IPPrefixesCache
          /\ PrefixOrder' = PrefixOrder
    ]_vars

\* an address hit of age exactly MAX_CACHE, answered with an ASN that differs
\* from the ASN of a fresh prefix entry containing the address
C15_Witness ==
    /\ last.path = "address"
    /\ Age(last.Result.TS) = MAX_CACHE
    /\ \E p \in FreshContaining(IPWrapper(last.in_IP)) :
          IPPrefixesCache[p].ASN # last.Result.ASN

\* the step is the client writing to the Result that its last call returned
ClientWrites ==
    /\ last.path # "none"
    /\ last'.path = last.path
    /\ calls' = calls
    /\ last'.Result # last.Result

\* C16: the records are owned by the cache and a caller receives a copy: after
\* an address hit, a prefix hit or a fetch, the caller writing to the Result it
\* was given leaves the stored record of the address as it was.
C16_CallerGetsCopy ==
    [][ClientWrites => IPAddressesCache' = IPAddressesCache]_vars

\* C17: a call answered from the prefix cache is answered from the first entry,
\* in the iteration order of the cache, that is fresh and contains the address:
\* the entries before it are stale, of the other address family or do not
\* contain the address, and the entries after it are not looked at, longer or
\* not.
C17_FirstMatch ==
    [][FindsFreshPrefix(last') =>
          LET obj == IPWrapper(last'.in_IP)
          IN  \E i \in 1..Len(PrefixOrder) :
                 LET P == PrefixOrder[i]
                 IN  /\ last'.Result.Prefix = P
                     /\ last'.Result.TS = IPPrefixesCache[P].TS
                     /\ last'.Result.ASN = IPPrefixesCache[P].ASN
                     /\ last'.Result.Holder = IPPrefixesCache[P].Holder
                     /\ Age(IPPrefixesCache[P].TS) <= MAX_CACHE
                     /\ NetWrapper(P).version = get_version(obj)
                     /\ contains(NetWrapper(P), obj)
                     /\ \A j \in 1..(i - 1) :
                           PrefixOrder[j] \notin FreshContaining(obj)
    ]_vars

\* a prefix hit answered from the /48 that comes first while the /64 that
\* follows it is fresh and contains the address too
C17_Witness ==
    /\ last.path = "prefix"
    /\ last.Result.Prefix = "2001:67c:2e8::/48"
    /\ "2001:67c:2e8:22::/64" \in FreshContaining(IPWrapper(last.in_IP))

\* the TS values a call may write: the clock when the call fetched, and the TS
\* of the entries the prefix cache had before the call
WritableTS(l) ==
    (IF l.fetches = 1 THEN {now} ELSE {})
    \cup { IPPrefixesCache[p].TS : p \in DOMAIN IPPrefixesCache }

\* C18: a cache hit never extends a lifetime: every TS a call writes to either
\* cache is the clock of the fetch made in that call or the TS of an entry the
\* prefix cache already had; the TS of a prefix entry never decreases; and a
\* Result returned from a cache hit carries a TS at most MAX_CACHE old.
C18_HitsNeverExtend ==
    [][last'.path # "none" =>
          /\ \A a \in DOMAIN IPAddressesCache' :
                (a \notin DOMAIN IPAddressesCache
                 \/ IPAddressesCache'[a] # IPAddressesCache[a])
                => IPAddressesCache'[a].TS \in WritableTS(last')
          /\ \A p \in DOMAIN IPPrefixesCache' :
                (p \notin DOMAIN IPPrefixesCache
                 \/ IPPrefixesCache'[p] # IPPrefixesCache[p])
                => IPPrefixesCache'[p].TS \in WritableTS(last')
          /\ \A p \in DOMAIN IPPrefixesCache :
                IPPrefixesCache'[p].TS >= IPPrefixesCache[p].TS
          /\ last'.path \in {"address", "prefix"} =>
                Age(last'.Result.TS) <= MAX_CACHE
    ]_vars

\* the record of address a is no older than MAX_CACHE
FreshRecord(a) == Age(IPAddressesCache[a].TS) <= MAX_CACHE

\* C19: from empty caches and with a service that names a block containing
\* the address, a record of the address cache with Prefix P is no newer than
\* the entry P of the prefix cache and, while the record is fresh, the entry P
\* is fresh and has the ASN and Holder of the record.
C19_Coherent ==
    \A a \in DOMAIN IPAddressesCache :
        LET P == IPAddressesCache[a].Prefix
        IN  P # "" =>
              /\ P \in DOMAIN IPPrefixesCache
              /\ IPAddressesCache[a].TS <= IPPrefixesCache[P].TS
              /\ FreshRecord(a) =>
                    /\ Age(IPPrefixesCache[P].TS) <= MAX_CACHE
                    /\ IPPrefixesCache[P].ASN = IPAddressesCache[a].ASN
                    /\ IPPrefixesCache[P].Holder = IPAddressesCache[a].Holder

\* two records of one prefix: a stale one, older than the entry of the prefix,
\* and a fresh one
C19_Witness ==
    \E a, b \in DOMAIN IPAddressesCache :
        LET P == IPAddressesCache[a].Prefix
        IN  /\ P # ""
            /\ IPAddressesCache[b].Prefix = P
            /\ ~FreshRecord(a)
            /\ IPAddressesCache[a].TS < IPPrefixesCache[P].TS
            /\ FreshRecord(b)

\* what a store with these caches, the prefix cache iterating in this order,
\* answers at the clock to a call for in_IP without a fetch: the record of a
\* fresh address hit, or the Result of a prefix hit, or nothing
CacheAnswer(addresses, prefixes, order, in_IP) ==
    LET obj == IPWrapper(in_IP)
        IP == exploded(obj)
        m == { i \in 1..Len(order) :
                 /\ Age(prefixes[order[i]].TS) <= MAX_CACHE
                 /\ contains(NetWrapper(order[i]), obj) }
    IN  IF IP \in DOMAIN addresses /\ Age(addresses[IP].TS) <= MAX_CACHE
        THEN [hit |-> "address", Result |-> addresses[IP]]
        ELSE IF m # {}
        THEN LET p == order[CHOOSE i \in m : \A j \in m : i <= j]
             IN  [hit |-> "prefix",
                  Result |-> [TS |-> prefixes[p].TS, ASN |-> prefixes[p].ASN,
                              Holder |-> prefixes[p].Holder, Prefix |-> p,
                              HostName |-> ""]]
        ELSE [hit |-> "none", Result |-> NewResult]

\* the answers of the store before the step and after it
AnswerBefore(in_IP) ==
    CacheAnswer(IPAddressesCache, IPPrefixesCache, PrefixOrder, in_IP)

AnswerAfter(in_IP) ==
    CacheAnswer(IPAddressesCache', IPPrefixesCache', PrefixOrder', in_IP)

\* the addresses that pass the gate of line 161
Askable ==
    { s \in ValidLiterals : is_globally_routable(ip_library, IPWrapper(s)) }

\* the step constructs an object from the files that SaveCache wrote from the
\* caches of the object that ended
Reloads ==
    /\ ~alive
    /\ alive'
    /\ IP_ADDRESSES_CACHE_FILE = json_dump(IPAddressesCache)
    /\ IP_PREFIXES_CACHE_FILE = json_dump(IPPrefixesCache)

\* C11, as stated: an object constructed from the files SaveCache wrote has
\* the address and prefix mappings that were saved, and at the same clock it
\* gives, to every call answered from a fresh entry, the Result the original
\* store gave, without a fetch.
C11_RoundTrip ==
    [][Reloads =>
          /\ IPAddressesCache' = IPAddressesCache
          /\ IPPrefixesCache' = IPPrefixesCache
          /\ \A in_IP \in Askable : AnswerAfter(in_IP) = AnswerBefore(in_IP)
    ]_vars

\* C11, amended: the mappings are the saved ones; a call is answered from the
\* address cache, from the prefix cache or by a fetch as on the original store;
\* an address hit returns the same record; a prefix hit returns the TS, ASN and
\* Holder of a fresh entry that contains the address, the same entry as on the
\* original store when only one does.
C11_RoundTripUpToOrder ==
    [][Reloads =>
          /\ IPAddressesCache' = IPAddressesCache
          /\ IPPrefixesCache' = IPPrefixesCache
          /\ \A in_IP \in Askable :
                LET before == AnswerBefore(in_IP)
                    after == AnswerAfter(in_IP)
                    among == FreshContaining(IPWrapper(in_IP))
                IN  /\ after.hit = before.hit
                    /\ before.hit = "address" => after = before
                    /\ before.hit = "prefix" =>
                          /\ after.Result.Prefix \in among
                          /\ after.Result =
                               [TS |-> IPPrefixesCache[after.Result.Prefix].TS,
                                ASN |-> IPPrefixesCache[after.Result.Prefix].ASN,
                                Holder |-> IPPrefixesCache[after.Result.Prefix].Holder,
                                Prefix |-> after.Result.Prefix,
                                HostName |-> ""]
                          /\ Cardinality(among) = 1 => after = before
    ]_vars

\* a reloaded store (the record of the watched address was not written by this
\* object) with two fresh entries that contain the same address
C11_Witness ==
    /\ alive
    /\ watch \in DOMAIN IPAddressesCache
    /\ cachedAt = Never
    /\ Cardinality(FreshContaining(IPWrapper(AddrC))) = 2

\* C20: the write probe of the constructor runs after the loading and leaves
\* both files empty: while the object lives and SaveCache has not run, both
\* files have length zero, whatever was loaded from them into memory; and an
\* object constructed after a process that ended without SaveCache starts with
\* empty caches.
C20_ProbeTruncates ==
    /\ [](alive /\ ~saved =>
             /\ IP_ADDRESSES_CACHE_FILE = Truncated
             /\ IP_PREFIXES_CACHE_FILE = Truncated)
    /\ [][(~alive /\ alive' /\ ~saved) =>
             /\ IPAddressesCache' = << >>
             /\ IPPrefixesCache' = << >>
      ]_vars

\* entries loaded from the files are in memory while both files are empty
C20_Witness ==
    /\ alive
    /\ ~saved
    /\ cachedAt = Never
    /\ watch \in DOMAIN IPAddressesCache
    /\ DOMAIN IPPrefixesCache # {}
    /\ IP_ADDRESSES_CACHE_FILE = Truncated
    /\ IP_PREFIXES_CACHE_FILE = Truncated

====
